---- MODULE Spec2Model ----
(***************************************************************************)
(* A model of the reference-counted immutable string `Str` of str.hpp.     *)
(*                                                                         *)
(* A handle (a `Str` object) is a pair of pointers: `ptr` to a char array  *)
(* and `counter` to an int.  Both are 0 (nullptr) or the identity of an    *)
(* allocation.  The heap is modelled explicitly: the char arrays, the      *)
(* counters, and for each of them how many times it was passed to delete.  *)
(***************************************************************************)
EXTENDS Integers, Sequences, FiniteSets, TLC

\* ---------------------------------------------------------------- bounds
NumHandles == 3      \* number of Str objects a run may create
MaxBufs == 2         \* number of `new` char arrays / counters a run may allocate
MaxLen == 2          \* longest source string of the content models

Handles == 1..NumHandles
Bufs == 1..MaxBufs
Threads == {1, 2}

\* The source strings the content constructors are called with in the
\* lifetime model: the empty string and a one-character string.  With the
\* `length` argument they give two different buffer contents.
Sources == {<<>>, <<1>>}

\* The source strings of the content models: the chars are the terminator
\* value 0 and two other values.
Byte == {0, 1, 2}
Strings == UNION {[1..n -> Byte] : n \in 0..MaxLen}

nullptr == 0

VARIABLES
    life,      \* life[h]: "unborn", "live" or "dead" (destructor has run)
    ptr,       \* ptr[h]: the member `const char* ptr`
    counter,   \* counter[h]: the member `int* counter`
    nalloc,    \* allocations made so far; pair n is char array n and counter n
    mem,       \* mem[b]: content of char array b
    cnt,       \* cnt[c]: the int stored in counter c
    bufFrees,  \* bufFrees[b]: number of `delete[]` calls on char array b
    cntFrees,  \* cntFrees[c]: number of `delete` calls on counter c
    last,      \* history: the last operation and its operands
    ub,        \* history: freed memory was dereferenced
    copies,    \* history: copies[b] = copy constructions made from buffer b
    dtors,     \* history: dtors[b] = destructors run on handles of buffer b
    pc,        \* pc[th]: where thread th stands inside a constructor/destructor
    cur,       \* cur[th]: the object thread th is constructing or destroying
    reg,       \* reg[th]: the value thread th last loaded from *counter
    raced,     \* history: two threads were inside an operation at once
    res        \* the value the last call of an observer returned

heap == <<nalloc, mem, cnt, bufFrees, cntFrees>>
tally == <<copies, dtors>>
threads == <<pc, cur, reg, raced>>
vars == <<life, ptr, counter, nalloc, mem, cnt, bufFrees, cntFrees,
          last, ub, copies, dtors, pc, cur, reg, raced, res>>

\* last.old is the target's `counter` before the operation and last.pre the
\* reference count the operand reported before it (the target's for
\* operator= and the destructor, the source's for the copy constructor).
NoOp == [op |-> "none", t |-> 0, s |-> 0, old |-> 0, pre |-> 0]

\* No observer has returned anything since the last modifying operation.
NoRes == "none"

\* ------------------------------------------------------- pure helpers

\* An increment that counts the new handle twice.
Incr_twice(cv, c) == [cv EXCEPT ![c] = @ + 2]

\* (*counter)++
Incr(cv, c) == [cv EXCEPT ![c] = @ + 1]

\* (*counter)--
Decr(cv, c) == [cv EXCEPT ![c] = @ - 1]

\* A constructor that copies the whole source string, whatever `length`.
MakeBuffer_whole(str, length) == str \o <<0>>

\* memcpy(strin, str, length); strin[length] = 0;
MakeBuffer(str, length) == SubSeq(str, 1, length) \o <<0>>

\* int ref_count() const
ref_count(h) == IF counter[h] = nullptr THEN 0 ELSE cnt[counter[h]]

\* const char* c_str() const
c_str(h) == ptr[h]

\* valid() with the polarity of its documentation comment.
valid_documented(h) == counter[h] # nullptr

\* bool valid() const
valid(h) == counter[h] = nullptr

\* ---------------------------------------------------------------- Init
Init ==
    /\ life = [h \in Handles |-> "unborn"]
    /\ ptr = [h \in Handles |-> nullptr]
    /\ counter = [h \in Handles |-> nullptr]
    /\ nalloc = 0
    /\ mem = [b \in Bufs |-> <<>>]
    /\ cnt = [c \in Bufs |-> 0]
    /\ bufFrees = [b \in Bufs |-> 0]
    /\ cntFrees = [c \in Bufs |-> 0]
    /\ last = NoOp
    /\ copies = [b \in Bufs |-> 0]
    /\ dtors = [b \in Bufs |-> 0]
    /\ ub = FALSE
    /\ pc = [th \in Threads |-> "idle"]
    /\ cur = [th \in Threads |-> 0]
    /\ reg = [th \in Threads |-> 0]
    /\ raced = FALSE
    /\ res = NoRes

\* Objects are numbered in the order of their construction: the next
\* constructor call creates the first handle that does not exist yet.
NextHandle(h) == life[h] = "unborn" /\ \A g \in Handles : g < h => life[g] # "unborn"

\* A dereference of counter c reads or writes freed memory.
Dangling(c) == c # nullptr /\ cntFrees[c] > 0

\* ------------------------------------------------------------- actions

\* Str() : ptr(nullptr), counter(nullptr) {}
Str_default(h) ==
    /\ NextHandle(h)
    /\ life' = [life EXCEPT ![h] = "live"]
    /\ ptr' = [ptr EXCEPT ![h] = nullptr]
    /\ counter' = [counter EXCEPT ![h] = nullptr]
    /\ last' = [op |-> "default", t |-> h, s |-> 0, old |-> 0, pre |-> 0]
    /\ UNCHANGED <<heap, ub>>

\* A constructor that shares the buffer of an existing handle of equal
\* content instead of allocating.
Str_cstr_interned(h, str, length) ==
    /\ NextHandle(h)
    /\ nalloc < MaxBufs
    /\ length <= Len(str)
    /\ LET same == {g \in Handles : /\ life[g] = "live"
                                     /\ ptr[g] # nullptr
                                     /\ mem[ptr[g]] = MakeBuffer(str, length)}
           n == nalloc + 1
       IN IF same # {}
          THEN \E g \in same :
                  /\ ptr' = [ptr EXCEPT ![h] = ptr[g]]
                  /\ counter' = [counter EXCEPT ![h] = counter[g]]
                  /\ cnt' = Incr(cnt, counter[g])
                  /\ UNCHANGED <<nalloc, mem>>
          ELSE /\ nalloc' = n
               /\ mem' = [mem EXCEPT ![n] = MakeBuffer(str, length)]
               /\ cnt' = [cnt EXCEPT ![n] = 1]
               /\ ptr' = [ptr EXCEPT ![h] = n]
               /\ counter' = [counter EXCEPT ![h] = n]
    /\ life' = [life EXCEPT ![h] = "live"]
    /\ last' = [op |-> "cstr", t |-> h, s |-> 0, old |-> 0, pre |-> 0]
    /\ UNCHANGED <<bufFrees, cntFrees, ub>>

\* explicit Str(const char* str, size_t length)
Str_cstr(h, str, length) ==
    /\ NextHandle(h)
    /\ nalloc < MaxBufs
    /\ length <= Len(str)
    /\ LET n == nalloc + 1 IN
        /\ nalloc' = n
        /\ mem' = [mem EXCEPT ![n] = MakeBuffer(str, length)]
        /\ cnt' = [cnt EXCEPT ![n] = 1]
        /\ ptr' = [ptr EXCEPT ![h] = n]
        /\ counter' = [counter EXCEPT ![h] = n]
    /\ life' = [life EXCEPT ![h] = "live"]
    /\ last' = [op |-> "cstr", t |-> h, s |-> 0, old |-> 0, pre |-> 0]
    /\ UNCHANGED <<bufFrees, cntFrees, ub>>

\* Str(const Str& other)
Str_copy(h, other) ==
    /\ NextHandle(h)
    /\ life[other] = "live"
    /\ life' = [life EXCEPT ![h] = "live"]
    /\ ptr' = [ptr EXCEPT ![h] = ptr[other]]
    /\ counter' = [counter EXCEPT ![h] = counter[other]]
    /\ cnt' = IF counter[other] # nullptr THEN Incr(cnt, counter[other]) ELSE cnt
    /\ ub' = (ub \/ Dangling(counter[other]))
    /\ last' = [op |-> "copy", t |-> h, s |-> other, old |-> 0,
                pre |-> ref_count(other)]
    /\ UNCHANGED <<nalloc, mem, bufFrees, cntFrees>>

\* operator= that forgets the reference the target gives up.
AssignCounts_noDecr(cv, old, new) ==
    IF new # nullptr THEN Incr(cv, new) ELSE cv

\* operator= that forgets the reference the target acquires.
AssignCounts_noIncr(cv, old, new) ==
    IF old # nullptr THEN Decr(cv, old) ELSE cv

\* operator= that skips the increment when the target already used the
\* source's counter, but still decrements.
AssignCounts_aliasSkip(cv, old, new) ==
    LET c1 == IF old # nullptr THEN Decr(cv, old) ELSE cv
    IN IF new # nullptr /\ new # old THEN Incr(c1, new) ELSE c1

\* The counters after operator= : decrement through the old counter, then
\* increment through the new one (the same int when both are equal).
AssignCounts(cv, old, new) ==
    LET c1 == IF old # nullptr THEN Decr(cv, old) ELSE cv
    IN IF new # nullptr THEN Incr(c1, new) ELSE c1

\* Str& operator=(const Str& other)
operator_assign(t, other) ==
    /\ life[t] = "live"
    /\ life[other] = "live"
    /\ cnt' = AssignCounts(cnt, counter[t], counter[other])
    /\ ptr' = [ptr EXCEPT ![t] = ptr[other]]
    /\ counter' = [counter EXCEPT ![t] = counter[other]]
    /\ ub' = (ub \/ Dangling(counter[t]) \/ Dangling(counter[other]))
    /\ last' = [op |-> "assign", t |-> t, s |-> other, old |-> counter[t],
                pre |-> ref_count(t)]
    /\ UNCHANGED <<life, nalloc, mem, bufFrees, cntFrees>>

\* A destructor that frees as soon as at most one other handle is left.
DtorFrees_early(v) == v <= 1

\* A destructor that never frees.
DtorFrees_never(v) == FALSE

\* The test `*counter == 0` of the destructor, on the decremented value.
DtorFrees(v) == v = 0

\* ~Str()
Str_dtor(h) ==
    /\ life[h] = "live"
    /\ life' = [life EXCEPT ![h] = "dead"]
    /\ IF counter[h] = nullptr
       THEN UNCHANGED <<cnt, bufFrees, cntFrees, ub>>
       ELSE LET c == counter[h]
                cv == Decr(cnt, c)
            IN /\ cnt' = cv
               /\ IF DtorFrees(cv[c])
                  THEN /\ bufFrees' = [bufFrees EXCEPT ![ptr[h]] = @ + 1]
                       /\ cntFrees' = [cntFrees EXCEPT ![c] = @ + 1]
                  ELSE UNCHANGED <<bufFrees, cntFrees>>
               /\ ub' = (ub \/ Dangling(c))
    \* the object and its two members cease to exist
    /\ ptr' = [ptr EXCEPT ![h] = nullptr]
    /\ counter' = [counter EXCEPT ![h] = nullptr]
    /\ last' = [op |-> "dtor", t |-> h, s |-> 0, old |-> counter[h],
                pre |-> ref_count(h)]
    /\ UNCHANGED <<nalloc, mem>>

\* explicit Str(const std::string& str) : Str(str.c_str(), str.size())
Str_string(h, str) == Str_cstr(h, str, Len(str))

\* Any single-threaded program over the class: every operation on every
\* object, in any order.
Next ==
    \/ \E h \in Handles : Str_default(h) /\ UNCHANGED <<tally, threads, res>>
    \/ \E h \in Handles, str \in Sources : Str_string(h, str) /\ UNCHANGED <<tally, threads, res>>
    \/ \E h \in Handles, str \in Sources, length \in 0..1 :
            Str_cstr(h, str, length) /\ UNCHANGED <<tally, threads, res>>
    \/ \E h \in Handles, other \in Handles : Str_copy(h, other) /\ UNCHANGED <<tally, threads, res>>
    \/ \E t \in Handles, other \in Handles : operator_assign(t, other) /\ UNCHANGED <<tally, threads, res>>
    \/ \E h \in Handles : Str_dtor(h) /\ UNCHANGED <<tally, threads, res>>

Spec == Init /\ [][Next]_vars

\* ----------------------------------------------- programs without operator=

\* tally with one more operation recorded for buffer c (none for nullptr).
Tick(f, c) == IF c = nullptr THEN f ELSE [f EXCEPT ![c] = @ + 1]

\* Any single-threaded program that only constructs, copy-constructs and
\* destroys handles, with the copy constructions and the destructions of
\* every buffer counted.
NextLifecycle ==
    \/ \E h \in Handles : Str_default(h) /\ UNCHANGED <<tally, threads, res>>
    \/ \E h \in Handles, str \in Sources : Str_string(h, str) /\ UNCHANGED <<tally, threads, res>>
    \/ \E h \in Handles, str \in Sources, length \in 0..1 :
            Str_cstr(h, str, length) /\ UNCHANGED <<tally, threads, res>>
    \/ \E h \in Handles, other \in Handles :
            /\ Str_copy(h, other)
            /\ copies' = Tick(copies, counter[other])
            /\ UNCHANGED <<dtors, threads, res>>
    \/ \E h \in Handles :
            /\ Str_dtor(h)
            /\ dtors' = Tick(dtors, counter[h])
            /\ UNCHANGED <<copies, threads, res>>

SpecLifecycle == Init /\ [][NextLifecycle]_vars


\* ------------------------------------------------------------- two threads

\* Two threads run copy constructors and destructors on objects of their
\* own without any lock.  `(*counter)++` and `(*counter)--` are a load
\* followed by a store, `*counter == 0` is another load, and the steps of
\* the two threads interleave freely.

\* The program has run `Str a(str, 1); Str b(a);` on one thread before the
\* two threads start.
InitMT ==
    /\ life = [h \in Handles |-> IF h <= 2 THEN "live" ELSE "unborn"]
    /\ ptr = [h \in Handles |-> IF h <= 2 THEN 1 ELSE nullptr]
    /\ counter = [h \in Handles |-> IF h <= 2 THEN 1 ELSE nullptr]
    /\ nalloc = 1
    /\ mem = [b \in Bufs |-> IF b = 1 THEN MakeBuffer(<<1>>, 1) ELSE <<>>]
    /\ cnt = [c \in Bufs |-> IF c = 1 THEN 2 ELSE 0]
    /\ bufFrees = [b \in Bufs |-> 0]
    /\ cntFrees = [c \in Bufs |-> 0]
    /\ last = [op |-> "copy", t |-> 2, s |-> 1, old |-> 0, pre |-> 1]
    /\ ub = FALSE
    /\ copies = [b \in Bufs |-> 0]
    /\ dtors = [b \in Bufs |-> 0]
    /\ pc = [th \in Threads |-> "idle"]
    /\ cur = [th \in Threads |-> 0]
    /\ reg = [th \in Threads |-> 0]
    /\ raced = FALSE
    /\ res = NoRes

\* Object h is being constructed or destroyed by some thread.
Busy(h) == \E th \in Threads : pc[th] # "idle" /\ cur[th] = h

\* Thread th enters an operation while the other thread is inside one.
Overlaps(th) == \E o \in Threads \ {th} : pc[o] # "idle"

\* What a load from *c can return: the stored int, or anything once the int
\* has been deleted.
Loads(c) == IF cntFrees[c] > 0 THEN 0..NumHandles ELSE {cnt[c]}

\* Str(const Str& other) : ptr(other.ptr), counter(other.counter)
\* and the test `counter != nullptr`
MT_copy_init(th, h, other) ==
    /\ pc[th] = "idle"
    /\ NextHandle(h)
    /\ life[other] = "live"
    /\ ~Busy(other)
    /\ life' = [life EXCEPT ![h] = "live"]
    /\ ptr' = [ptr EXCEPT ![h] = ptr[other]]
    /\ counter' = [counter EXCEPT ![h] = counter[other]]
    /\ IF counter[other] # nullptr
       THEN /\ pc' = [pc EXCEPT ![th] = "copy_load"]
            /\ cur' = [cur EXCEPT ![th] = h]
            /\ raced' = (raced \/ Overlaps(th))
       ELSE UNCHANGED <<pc, cur, raced>>
    /\ UNCHANGED <<heap, last, res, ub, tally, reg>>

\* (*counter)++ : the load
MT_copy_load(th) ==
    /\ pc[th] = "copy_load"
    /\ \E v \in Loads(counter[cur[th]]) : reg' = [reg EXCEPT ![th] = v]
    /\ ub' = (ub \/ Dangling(counter[cur[th]]))
    /\ pc' = [pc EXCEPT ![th] = "copy_store"]
    /\ UNCHANGED <<life, ptr, counter, heap, last, res, tally, cur, raced>>

\* (*counter)++ : the store
MT_copy_store(th) ==
    /\ pc[th] = "copy_store"
    /\ cnt' = [cnt EXCEPT ![counter[cur[th]]] = reg[th] + 1]
    /\ ub' = (ub \/ Dangling(counter[cur[th]]))
    /\ pc' = [pc EXCEPT ![th] = "idle"]
    /\ cur' = [cur EXCEPT ![th] = 0]
    /\ UNCHANGED <<life, ptr, counter, nalloc, mem, bufFrees, cntFrees,
                   last, res, tally, reg, raced>>

\* The end of ~Str(): the object and its two members cease to exist.
MT_dtor_end(th) ==
    /\ life' = [life EXCEPT ![cur[th]] = "dead"]
    /\ ptr' = [ptr EXCEPT ![cur[th]] = nullptr]
    /\ counter' = [counter EXCEPT ![cur[th]] = nullptr]
    /\ pc' = [pc EXCEPT ![th] = "idle"]
    /\ cur' = [cur EXCEPT ![th] = 0]

\* ~Str() : if (counter == nullptr) return;
MT_dtor_init(th, h) ==
    /\ pc[th] = "idle"
    /\ life[h] = "live"
    /\ ~Busy(h)
    /\ IF counter[h] = nullptr
       THEN /\ life' = [life EXCEPT ![h] = "dead"]
            /\ UNCHANGED <<pc, cur, raced>>
       ELSE /\ pc' = [pc EXCEPT ![th] = "dtor_load"]
            /\ cur' = [cur EXCEPT ![th] = h]
            /\ raced' = (raced \/ Overlaps(th))
            /\ UNCHANGED life
    /\ UNCHANGED <<ptr, counter, heap, last, res, ub, tally, reg>>

\* (*counter)-- : the load
MT_dtor_load(th) ==
    /\ pc[th] = "dtor_load"
    /\ \E v \in Loads(counter[cur[th]]) : reg' = [reg EXCEPT ![th] = v]
    /\ ub' = (ub \/ Dangling(counter[cur[th]]))
    /\ pc' = [pc EXCEPT ![th] = "dtor_store"]
    /\ UNCHANGED <<life, ptr, counter, heap, last, res, tally, cur, raced>>

\* (*counter)-- : the store
MT_dtor_store(th) ==
    /\ pc[th] = "dtor_store"
    /\ cnt' = [cnt EXCEPT ![counter[cur[th]]] = reg[th] - 1]
    /\ ub' = (ub \/ Dangling(counter[cur[th]]))
    /\ pc' = [pc EXCEPT ![th] = "dtor_test"]
    /\ UNCHANGED <<life, ptr, counter, nalloc, mem, bufFrees, cntFrees,
                   last, res, tally, cur, reg, raced>>

\* if (*counter == 0) : a second load; the destructor ends when it is not 0
MT_dtor_test(th) ==
    /\ pc[th] = "dtor_test"
    /\ ub' = (ub \/ Dangling(counter[cur[th]]))
    /\ \E v \in Loads(counter[cur[th]]) :
        /\ reg' = [reg EXCEPT ![th] = v]
        /\ IF DtorFrees(v)
           THEN /\ pc' = [pc EXCEPT ![th] = "dtor_delete"]
                /\ UNCHANGED <<life, ptr, counter, cur>>
           ELSE MT_dtor_end(th)
    /\ UNCHANGED <<heap, last, res, tally, raced>>

\* delete[] ptr; delete counter;
MT_dtor_delete(th) ==
    /\ pc[th] = "dtor_delete"
    /\ bufFrees' = [bufFrees EXCEPT ![ptr[cur[th]]] = @ + 1]
    /\ cntFrees' = [cntFrees EXCEPT ![counter[cur[th]]] = @ + 1]
    /\ MT_dtor_end(th)
    /\ UNCHANGED <<nalloc, mem, cnt, last, res, ub, tally, reg, raced>>

NextMT ==
    \/ \E th \in Threads, h \in Handles, other \in Handles : MT_copy_init(th, h, other)
    \/ \E th \in Threads : MT_copy_load(th)
    \/ \E th \in Threads : MT_copy_store(th)
    \/ \E th \in Threads, h \in Handles : MT_dtor_init(th, h)
    \/ \E th \in Threads : MT_dtor_load(th)
    \/ \E th \in Threads : MT_dtor_store(th)
    \/ \E th \in Threads : MT_dtor_test(th)
    \/ \E th \in Threads : MT_dtor_delete(th)

SpecMT == InitMT /\ [][NextMT]_vars

\* --------------------------------------------------------------- comparisons

\* strcmp from position i on: the first differing char decides, and the
\* comparison ends at the terminator.
RECURSIVE strcmp_from(_, _, _)
strcmp_from(x, y, i) ==
    IF x[i] # y[i] THEN (IF x[i] < y[i] THEN -1 ELSE 1)
    ELSE IF x[i] = 0 THEN 0
    ELSE strcmp_from(x, y, i + 1)

\* strcmp(s1.ptr, s2.ptr), as the sign of its result (the operators only
\* compare it with 0).
strcmp(x, y) == strcmp_from(x, y, 1)

\* operator== without the comparison of contents.
op_eq_identity(s1, s2) == ptr[s1] = ptr[s2]

\* friend bool operator==(const Str& s1, const Str& s2)
op_eq(s1, s2) ==
    IF ptr[s1] = ptr[s2] THEN TRUE
    ELSE IF ptr[s1] = nullptr \/ ptr[s2] = nullptr THEN FALSE
    ELSE strcmp(mem[ptr[s1]], mem[ptr[s2]]) = 0

\* friend bool operator!=(const Str& s1, const Str& s2)
op_ne(s1, s2) ==
    IF ptr[s1] = ptr[s2] THEN FALSE
    ELSE IF ptr[s1] = nullptr \/ ptr[s2] = nullptr THEN TRUE
    ELSE strcmp(mem[ptr[s1]], mem[ptr[s2]]) # 0

\* friend bool operator<(const Str& s1, const Str& s2)
op_lt(s1, s2) ==
    IF ptr[s1] = nullptr /\ ptr[s2] = nullptr THEN FALSE
    ELSE IF ptr[s1] = nullptr THEN TRUE
    ELSE IF ptr[s2] = nullptr THEN FALSE
    ELSE strcmp(mem[ptr[s1]], mem[ptr[s2]]) < 0

\* operator> with the null tests of operator<.
op_gt_pasted(s1, s2) ==
    IF ptr[s1] = nullptr /\ ptr[s2] = nullptr THEN FALSE
    ELSE IF ptr[s1] = nullptr THEN TRUE
    ELSE IF ptr[s2] = nullptr THEN FALSE
    ELSE strcmp(mem[ptr[s1]], mem[ptr[s2]]) > 0

\* friend bool operator>(const Str& s1, const Str& s2)
op_gt(s1, s2) ==
    IF ptr[s1] = nullptr /\ ptr[s2] = nullptr THEN FALSE
    ELSE IF ptr[s1] = nullptr THEN FALSE
    ELSE IF ptr[s2] = nullptr THEN TRUE
    ELSE strcmp(mem[ptr[s1]], mem[ptr[s2]]) > 0

\* operator<= that forgets the two null tests.
op_le_nonull(s1, s2) ==
    IF ptr[s1] = nullptr \/ ptr[s2] = nullptr THEN FALSE
    ELSE strcmp(mem[ptr[s1]], mem[ptr[s2]]) <= 0

\* friend bool operator<=(const Str& s1, const Str& s2)
op_le(s1, s2) ==
    IF ptr[s1] = nullptr /\ ptr[s2] = nullptr THEN TRUE
    ELSE IF ptr[s1] = nullptr THEN TRUE
    ELSE IF ptr[s2] = nullptr THEN FALSE
    ELSE strcmp(mem[ptr[s1]], mem[ptr[s2]]) <= 0

\* friend bool operator>=(const Str& s1, const Str& s2)
op_ge(s1, s2) ==
    IF ptr[s1] = nullptr /\ ptr[s2] = nullptr THEN TRUE
    ELSE IF ptr[s1] = nullptr THEN FALSE
    ELSE IF ptr[s2] = nullptr THEN TRUE
    ELSE strcmp(mem[ptr[s1]], mem[ptr[s2]]) >= 0

\* A call of a comparison operator on two live handles: it returns `value`
\* and writes nothing.
Compare(name, s1, s2, value) ==
    /\ life[s1] = "live"
    /\ life[s2] = "live"
    /\ last' = [op |-> name, t |-> s1, s |-> s2, old |-> 0, pre |-> 0]
    /\ res' = value
    /\ UNCHANGED <<life, ptr, counter, heap, ub, tally, threads>>

Call_eq(s1, s2) == Compare("==", s1, s2, op_eq(s1, s2))
Call_ne(s1, s2) == Compare("!=", s1, s2, op_ne(s1, s2))
Call_lt(s1, s2) == Compare("<", s1, s2, op_lt(s1, s2))
Call_gt(s1, s2) == Compare(">", s1, s2, op_gt(s1, s2))
Call_le(s1, s2) == Compare("<=", s1, s2, op_le(s1, s2))
Call_ge(s1, s2) == Compare(">=", s1, s2, op_ge(s1, s2))

\* The operands of the comparison model: three handles and as many buffers.
CmpHandles == {1, 2, 3}
CmpBufs == {1, 2, 3}

\* The char arrays the content constructor can make from the strings.
Buffers == {MakeBuffer(str, n) : <<str, n>> \in
                {sn \in Strings \X (0..MaxLen) : sn[2] <= Len(sn[1])}}

\* p gives every operand nullptr or a buffer, the buffers being numbered in
\* the order of the operands that use them.
Numbered(p) ==
    \A h \in CmpHandles :
        \/ p[h] = nullptr
        \/ \E g \in CmpHandles : g < h /\ p[g] = p[h]
        \/ p[h] = 1 + Cardinality({p[g] : g \in {k \in CmpHandles : k < h}} \ {nullptr})

\* A number for a char array, different for different arrays.
RECURSIVE Code(_)
Code(x) == IF x = <<>> THEN 0 ELSE x[1] + 1 + 4 * Code(Tail(x))

\* The operands are given in the order of their buffers' contents (every
\* operator is called on every ordered pair of operands and every property
\* speaks of all operands in any order, so the order in which the operands
\* are listed makes no difference).
Ordered(c) ==
    \A b1, b2 \in CmpBufs :
        (b1 < b2 /\ c[b1] # <<>> /\ c[b2] # <<>>) => Code(c[b1]) <= Code(c[b2])

\* A program has constructed some buffers from content and has made three
\* handles of them by constructors, copies and assignments: every operand
\* is Uninitialized or references one of the buffers, and every buffer has
\* the count of its handles.
InitCmp ==
    \E p \in [CmpHandles -> {nullptr} \cup CmpBufs], c \in [CmpBufs -> Buffers \cup {<<>>}] :
        /\ Numbered(p)
        /\ Ordered(c)
        /\ \A b \in CmpBufs : (c[b] = <<>>) <=> (\A h \in CmpHandles : p[h] # b)
        /\ life = [h \in Handles |-> IF h \in CmpHandles THEN "live" ELSE "unborn"]
        /\ ptr = [h \in Handles |-> IF h \in CmpHandles THEN p[h] ELSE nullptr]
        /\ counter = [h \in Handles |-> IF h \in CmpHandles THEN p[h] ELSE nullptr]
        /\ nalloc = Cardinality({p[h] : h \in CmpHandles} \ {nullptr})
        /\ mem = c
        /\ cnt = [b \in CmpBufs |-> Cardinality({h \in CmpHandles : p[h] = b})]
        /\ bufFrees = [b \in CmpBufs |-> 0]
        /\ cntFrees = [b \in CmpBufs |-> 0]
        /\ last = NoOp
        /\ ub = FALSE
        /\ copies = [b \in CmpBufs |-> 0]
        /\ dtors = [b \in CmpBufs |-> 0]
        /\ pc = [th \in Threads |-> "idle"]
        /\ cur = [th \in Threads |-> 0]
        /\ reg = [th \in Threads |-> 0]
        /\ raced = FALSE
        /\ res = NoRes

\* The comparison model follows the first call made on the operands: the
\* operators write nothing, so a later call would find the same objects.
FirstCall == last.op = NoOp.op

NextCmp ==
    \/ \E s1 \in Handles, s2 \in Handles : FirstCall /\ Call_eq(s1, s2)
    \/ \E s1 \in Handles, s2 \in Handles : FirstCall /\ Call_ne(s1, s2)
    \/ \E s1 \in Handles, s2 \in Handles : FirstCall /\ Call_lt(s1, s2)
    \/ \E s1 \in Handles, s2 \in Handles : FirstCall /\ Call_gt(s1, s2)
    \/ \E s1 \in Handles, s2 \in Handles : FirstCall /\ Call_le(s1, s2)
    \/ \E s1 \in Handles, s2 \in Handles : FirstCall /\ Call_ge(s1, s2)

SpecCmp == InitCmp /\ [][NextCmp]_vars


\* ------------------------------------------------------------- observers

\* The content of char array x up to its terminator.
Text(x) == SubSeq(x, 1, (CHOOSE i \in 1..Len(x) :
                            x[i] = 0 /\ \A j \in 1..(i - 1) : x[j] # 0) - 1)

\* What `os << s` writes: the chars of s.ptr up to the terminator, nothing
\* for a null pointer.
printed(h) == IF ptr[h] # nullptr THEN Text(mem[ptr[h]]) ELSE <<>>

\* An observer that takes its handle by value and never destroys the copy:
\* it leaves the count of the handle's buffer one too high.
Observe_counting(name, h, value) ==
    /\ life[h] = "live"
    /\ last' = [op |-> name, t |-> h, s |-> 0, old |-> 0, pre |-> 0]
    /\ res' = value
    /\ cnt' = IF counter[h] # nullptr THEN Incr(cnt, counter[h]) ELSE cnt
    /\ UNCHANGED <<life, ptr, counter, nalloc, mem, bufFrees, cntFrees,
                   ub, tally, threads>>

\* A call of a const member or of operator<< on a live handle: it returns
\* (or writes to the stream) `value` and writes no object and no memory.
Observe(name, h, value) ==
    /\ life[h] = "live"
    /\ last' = [op |-> name, t |-> h, s |-> 0, old |-> 0, pre |-> 0]
    /\ res' = value
    /\ UNCHANGED <<life, ptr, counter, heap, ub, tally, threads>>

Call_ref_count(h) == Observe("ref_count", h, ref_count(h))
Call_c_str(h) == Observe("c_str", h, c_str(h))
Call_valid(h) == Observe("valid", h, valid(h))
Call_print(h) == Observe("<<", h, printed(h))

\* ---------------------------------------------------- construction round trip

\* A program that constructs one handle from content, copies it and reads
\* the raw content of the handles.
NextRoundTrip ==
    \/ \E h \in Handles, str \in Strings :
            nalloc = 0 /\ Str_string(h, str) /\ UNCHANGED <<tally, threads, res>>
    \/ \E h \in Handles, str \in Strings, length \in 0..MaxLen :
            nalloc = 0 /\ Str_cstr(h, str, length) /\ UNCHANGED <<tally, threads, res>>
    \/ \E h \in Handles, other \in Handles :
            Str_copy(h, other) /\ UNCHANGED <<tally, threads, res>>
    \/ \E h \in Handles : Call_c_str(h)

SpecRoundTrip == Init /\ [][NextRoundTrip]_vars

\* ------------------------------------------- programs that call observers

\* No observer has been called yet.
Unobserved == last.op \in {"none", "default", "cstr", "copy", "assign", "dtor"}

\* Any single-threaded program over the class, followed up to its first call
\* of an observer: ref_count(), c_str(), valid(), operator<< or one of the
\* six comparison operators.  (An observer writes no object and no memory,
\* so the program goes on from the call as it would without it.)
NextObs ==
    \/ Unobserved /\ Next
    \/ \E h \in Handles : Unobserved /\ Call_ref_count(h)
    \/ \E h \in Handles : Unobserved /\ Call_c_str(h)
    \/ \E h \in Handles : Unobserved /\ Call_valid(h)
    \/ \E h \in Handles : Unobserved /\ Call_print(h)
    \/ \E s1 \in Handles, s2 \in Handles : Unobserved /\ Call_eq(s1, s2)
    \/ \E s1 \in Handles, s2 \in Handles : Unobserved /\ Call_ne(s1, s2)
    \/ \E s1 \in Handles, s2 \in Handles : Unobserved /\ Call_lt(s1, s2)
    \/ \E s1 \in Handles, s2 \in Handles : Unobserved /\ Call_gt(s1, s2)
    \/ \E s1 \in Handles, s2 \in Handles : Unobserved /\ Call_le(s1, s2)
    \/ \E s1 \in Handles, s2 \in Handles : Unobserved /\ Call_ge(s1, s2)

SpecObs == Init /\ [][NextObs]_vars

\* ------------------------------------------------------------ properties

Live == {h \in Handles : life[h] = "live"}

\* The live handles whose `ptr` is char array b.
Refs(b) == {h \in Live : ptr[h] = b}

Allocated == 1..nalloc

\* The step is the one recorded as operation `name` on handles t and s
\* (s = 0 for an operation of one handle).
Ran(name, t, s) == last'.op = name /\ last'.t = t /\ last'.s = s

\* C1: the share count of every buffer that has not been freed equals the
\* number of live handles referencing that buffer.
C1_CountIsExact ==
    \A b \in Allocated :
        bufFrees[b] = 0 =>
            /\ cnt[b] = Cardinality(Refs(b))
            /\ \A h \in Refs(b) : counter[h] = b

\* C1 witness: a self-assignment or an assignment between two handles of
\* one buffer has run, that buffer has two live handles, and a third handle
\* has been destroyed.
C1_Witness ==
    /\ last.op = "assign"
    /\ last.old # nullptr
    /\ last.old = counter[last.s]
    /\ Cardinality(Refs(last.old)) = 2
    /\ \E h \in Handles : life[h] = "dead"

\* C2: when operator= overwrites the only handle of a buffer with a handle
\* of another buffer or with an Uninitialized handle, the old buffer's count
\* becomes 0 and the buffer and its counter are freed in that same step.
C2_AssignFreesSoleTarget ==
    [][\A t, s \in Handles :
         (/\ operator_assign(t, s)
          /\ counter[t] # nullptr
          /\ cnt[counter[t]] = 1
          /\ counter[s] # counter[t])
         => /\ cnt'[counter[t]] = 0
            /\ bufFrees'[ptr[t]] = 1
            /\ cntFrees'[counter[t]] = 1]_vars

\* C3: once every handle has been destroyed, every pair that was allocated
\* has been freed exactly once; and a buffer is freed exactly when no live
\* handle references it any more.
C3_NoLeak ==
    /\ (Live = {} =>
            \A b \in Allocated : bufFrees[b] = 1 /\ cntFrees[b] = 1)
    /\ \A b \in Allocated :
            (Refs(b) = {}) <=> (bufFrees[b] = 1 /\ cntFrees[b] = 1)

\* C4: no freed memory is dereferenced, no buffer is freed while a live
\* handle references it, and no buffer or counter is freed more than once.
C4_NoUseAfterFreeNoDoubleFree ==
    /\ ~ub
    /\ \A b \in Bufs :
        /\ bufFrees[b] <= 1
        /\ cntFrees[b] <= 1
        /\ bufFrees[b] >= 1 => \A h \in Live : ptr[h] # b
        /\ cntFrees[b] >= 1 => \A h \in Live : counter[h] # b

\* C4 witness: one buffer has been freed by a destructor while another
\* buffer is still shared by two live handles.
C4_Witness ==
    /\ last.op = "dtor"
    /\ last.old # nullptr
    /\ bufFrees[last.old] = 1
    /\ \E b \in Allocated : Cardinality(Refs(b)) = 2

\* C5: in a program of constructions, copy constructions and destructions,
\* a handle constructed from content reports 1, after N copy constructions
\* every handle of the buffer reports N + 1, and every destruction of one of
\* them lowers what the others report by 1.
C5_RefcountLifecycle ==
    \A h \in Live :
        counter[h] # nullptr =>
            ref_count(h) = 1 + copies[counter[h]] - dtors[counter[h]]

\* C5 witness: a buffer was copied twice, one of its handles has been
\* destroyed, and two handles still report its count.
C5_Witness ==
    \E b \in Allocated :
        /\ copies[b] = 2
        /\ dtors[b] = 1
        /\ Cardinality(Refs(b)) = 2
        /\ \A h \in Refs(b) : ref_count(h) = 2

\* C6: a = a leaves the count and the content of a unchanged and frees
\* nothing, for an Initialized handle of any count and for an Uninitialized
\* one.
C6_SelfAssign ==
    [][\A a \in Handles :
         (Ran("assign", a, a) /\ operator_assign(a, a)) =>
            /\ ref_count(a)' = ref_count(a)
            /\ c_str(a)' = c_str(a)
            /\ counter'[a] = counter[a]
            /\ mem' = mem
            /\ cnt' = cnt
            /\ bufFrees' = bufFrees
            /\ cntFrees' = cntFrees]_vars

\* C6 witness: the only handle of a buffer has been assigned to itself.
C6_Witness ==
    /\ last.op = "assign"
    /\ last.t = last.s
    /\ last.pre = 1
    /\ ref_count(last.t) = 1
    /\ bufFrees[ptr[last.t]] = 0

\* C7: when a and b are two handles of one buffer with count k >= 2, a = b
\* leaves the count at k, leaves both on that buffer and frees nothing.
C7_SharedAssign ==
    [][last'.op = "assign" => \A a, b \in Handles :
         (/\ Ran("assign", a, b)
          /\ operator_assign(a, b)
          /\ a # b
          /\ counter[a] # nullptr
          /\ counter[a] = counter[b]
          /\ cnt[counter[a]] >= 2)
         => /\ cnt'[counter[a]] = cnt[counter[a]]
            /\ ptr'[a] = ptr[a] /\ counter'[a] = counter[a]
            /\ ptr'[b] = ptr[b] /\ counter'[b] = counter[b]
            /\ bufFrees' = bufFrees
            /\ cntFrees' = cntFrees]_vars

\* C7 witness: a = b has run on two distinct handles that already shared a
\* buffer of count 2.
C7_Witness ==
    /\ last.op = "assign"
    /\ last.t # last.s
    /\ last.old # nullptr
    /\ last.old = counter[last.s]
    /\ last.pre = 2
    /\ ref_count(last.t) = 2

\* C8: for every live handle, `ptr` is null exactly when `counter` is null,
\* and when they are not null the count is at least 1 and neither the buffer
\* nor the counter has been freed.
C8_PtrCounterPaired ==
    \A h \in Live :
        /\ (ptr[h] # nullptr) <=> (counter[h] # nullptr)
        /\ counter[h] # nullptr =>
            /\ cnt[counter[h]] >= 1
            /\ bufFrees[ptr[h]] = 0
            /\ cntFrees[counter[h]] = 0

\* C8 witness: an assignment from an Uninitialized handle has turned an
\* Initialized handle into an Uninitialized one while another handle of the
\* same buffer is still live.
C8_Witness ==
    /\ last.op = "assign"
    /\ last.old # nullptr
    /\ counter[last.t] = nullptr
    /\ ptr[last.t] = nullptr
    /\ Refs(last.old) # {}

\* C9: the destructor of an Initialized handle lowers the count of its
\* buffer by exactly 1 and frees the buffer and the counter exactly when
\* the count became 0; the destructor of an Uninitialized handle changes no
\* count and frees nothing.
C9_Destruct ==
    [][\A h \in Handles :
         (Ran("dtor", h, 0) /\ Str_dtor(h)) =>
            IF counter[h] # nullptr
            THEN /\ cnt'[counter[h]] = cnt[counter[h]] - 1
                 /\ \A c \in Bufs \ {counter[h]} : cnt'[c] = cnt[c]
                 /\ IF cnt'[counter[h]] = 0
                    THEN /\ bufFrees' = [bufFrees EXCEPT ![ptr[h]] = @ + 1]
                         /\ cntFrees' = [cntFrees EXCEPT ![counter[h]] = @ + 1]
                    ELSE bufFrees' = bufFrees /\ cntFrees' = cntFrees
            ELSE cnt' = cnt /\ bufFrees' = bufFrees /\ cntFrees' = cntFrees]_vars

\* C9 witness: the destructor of the last handle of a buffer has run and
\* the buffer and its counter are freed.
C9_Witness ==
    /\ last.op = "dtor"
    /\ last.old # nullptr
    /\ last.pre = 1
    /\ cnt[last.old] = 0
    /\ bufFrees[last.old] = 1
    /\ cntFrees[last.old] = 1

\* No thread is inside an operation.
Quiescent == \A th \in Threads : pc[th] = "idle"

\* Some buffer has been deleted twice.
DoubleFree == \E b \in Allocated : bufFrees[b] >= 2 \/ cntFrees[b] >= 2

\* A live handle references a deleted buffer, or deleted memory was used.
UseAfterFree ==
    \/ ub
    \/ \E h \in Live : ptr[h] # nullptr /\ bufFrees[ptr[h]] >= 1

\* The count of a buffer that is not deleted is not its number of handles.
CountCorrupt ==
    \E b \in Allocated : bufFrees[b] = 0 /\ cnt[b] # Cardinality(Refs(b))

BadState == Quiescent /\ (CountCorrupt \/ DoubleFree \/ UseAfterFree)

\* C10: the class is not thread-safe: with two unsynchronised threads
\* copying and destroying handles of one buffer a bad state (wrong count,
\* double free, use after free) is reached (the witness), and it is reached
\* only by runs in which the operations of the two threads overlapped.
C10_BadOnlyByRace == BadState => raced

\* C10 witness: both threads have finished and the buffer has been deleted
\* twice.
C10_Witness == Quiescent /\ DoubleFree /\ raced

\* A live handle is Uninitialized when it holds no buffer and no counter,
\* Initialized when it holds both.
Uninitialized(h) == ptr[h] = nullptr /\ counter[h] = nullptr
Initialized(h) == ptr[h] # nullptr /\ counter[h] # nullptr

C12_ValidMeansContent ==
    /\ \A h \in Live : valid(h) <=> Initialized(h)
    /\ (last.op = "default" => ~valid(last.t))

\* A comparison operator has been called, on the operands last.t, last.s.
Compared == last.op \in {"==", "!=", "<", ">", "<=", ">="}

\* C13: for the operands a, b of any comparison call, a == b is true
\* exactly when a and b reference the identical buffer (both Uninitialized
\* and a handle with itself included) or are both Initialized with equal
\* contents up to the terminator; it is false when exactly one side is
\* Uninitialized; and a != b is the negation of a == b.
C13_Equality ==
    Compared =>
        LET a == last.t
            b == last.s
        IN /\ op_eq(a, b) <=>
                \/ ptr[a] = ptr[b]
                \/ /\ Initialized(a)
                   /\ Initialized(b)
                   /\ Text(mem[ptr[a]]) = Text(mem[ptr[b]])
           /\ op_eq(a, a)
           /\ (Uninitialized(a) /\ Uninitialized(b)) => op_eq(a, b)
           /\ (Uninitialized(a) # Uninitialized(b)) => ~op_eq(a, b)
           /\ op_ne(a, b) <=> ~op_eq(a, b)
           /\ last.op = "==" => res = op_eq(a, b)
           /\ last.op = "!=" => res = ~op_eq(a, b)

\* C13 witness: == has returned true for two handles of different
\* allocations whose contents have two chars before the terminator.
C13_Witness ==
    /\ last.op = "=="
    /\ res = TRUE
    /\ Initialized(last.t)
    /\ Initialized(last.s)
    /\ ptr[last.t] # ptr[last.s]
    /\ Len(Text(mem[ptr[last.t]])) = 2

\* C14: for the operands of any comparison call, an Uninitialized handle u
\* sorts strictly before an Initialized handle h, also one of empty
\* content, under all six operators, and two Uninitialized handles are ==,
\* <= and >= but neither < nor >.
C14_UninitializedOrdering ==
    Compared =>
        LET u == last.t
            h == last.s
        IN /\ (Uninitialized(u) /\ Initialized(h)) =>
                /\ op_lt(u, h) /\ op_gt(h, u) /\ op_le(u, h) /\ op_ge(h, u)
                /\ op_ne(u, h) /\ op_ne(h, u)
                /\ ~op_lt(h, u) /\ ~op_gt(u, h) /\ ~op_le(h, u) /\ ~op_ge(u, h)
                /\ ~op_eq(u, h) /\ ~op_eq(h, u)
           /\ (Uninitialized(u) /\ Uninitialized(h)) =>
                /\ op_eq(u, h) /\ op_le(u, h) /\ op_ge(u, h)
                /\ ~op_lt(u, h) /\ ~op_gt(u, h)

\* C14 witness: <= has returned true for an Uninitialized handle and an
\* Initialized handle of empty content.
C14_Witness ==
    /\ last.op = "<="
    /\ res = TRUE
    /\ Uninitialized(last.t)
    /\ Initialized(last.s)
    /\ Text(mem[ptr[last.s]]) = <<>>

\* C15: the six operators are one total order: for the operands a, b of
\* any comparison call and any handle c, exactly one of a < b, a == b,
\* a > b holds; a < b iff b > a; <= is < or ==; >= is > or ==; != is not
\* ==; and < is transitive.
C15_TotalOrder ==
    Compared =>
        LET a == last.t
            b == last.s
        IN /\ op_lt(a, b) \/ op_eq(a, b) \/ op_gt(a, b)
           /\ ~(op_lt(a, b) /\ op_eq(a, b))
           /\ ~(op_lt(a, b) /\ op_gt(a, b))
           /\ ~(op_eq(a, b) /\ op_gt(a, b))
           /\ op_lt(a, b) <=> op_gt(b, a)
           /\ op_le(a, b) <=> (op_lt(a, b) \/ op_eq(a, b))
           /\ op_ge(a, b) <=> (op_gt(a, b) \/ op_eq(a, b))
           /\ op_ne(a, b) <=> ~op_eq(a, b)
           /\ \A c \in Live : (op_lt(a, b) /\ op_lt(b, c)) => op_lt(a, c)

\* C15 witness: > has returned true on an Initialized pair while the three
\* operands are an Uninitialized handle and two handles of different
\* contents that agree in their first char.
C15_Witness ==
    /\ last.op = ">"
    /\ res = TRUE
    /\ Initialized(last.t)
    /\ Initialized(last.s)
    /\ mem[ptr[last.t]][1] = mem[ptr[last.s]][1]
    /\ mem[ptr[last.t]][1] # 0
    /\ \E u \in Live : Uninitialized(u)

\* C16: constructing a handle from (s, n) makes a buffer of n + 1 chars, the
\* first n being those of s and the last the terminator 0, which c_str()
\* returns for the handle; a copy returns the same buffer, unchanged.
C16_RoundTrip ==
    [][/\ \A h \in Handles, str \in Strings, n \in 0..MaxLen :
            (Ran("cstr", h, 0) /\ Str_cstr(h, str, n)) =>
                /\ c_str(h)' # nullptr
                /\ Len(mem'[c_str(h)']) = n + 1
                /\ \A i \in 1..n : mem'[c_str(h)'][i] = str[i]
                /\ mem'[c_str(h)'][n + 1] = 0
       /\ \A h \in Handles, other \in Handles :
            (Ran("copy", h, other) /\ Str_copy(h, other))
                => (c_str(h)' = c_str(other) /\ mem' = mem)
       /\ \A h \in Handles :
            Call_c_str(h) => (res' = ptr[h] /\ ptr' = ptr /\ mem' = mem)]_vars

\* C16 witness: c_str() has returned the buffer of a copy, a buffer of three
\* chars with a 0 before its terminator.
C16_Witness ==
    /\ last.op = "c_str"
    /\ res # nullptr
    /\ res = ptr[last.t]
    /\ cnt[res] = 2
    /\ Len(mem[res]) = 3
    /\ mem[res][2] = 0
    /\ mem[res][1] # 0

\* C17: a construction from content allocates a new buffer and counter,
\* with count 1 and referenced by no other handle, also when an existing
\* buffer has the same content, and changes no other count; and a handle
\* comes to reference a buffer only by constructing it or by a copy
\* construction or assignment from a handle that references it.
C17_NoAccidentalAliasing ==
    [][/\ last'.op = "cstr" => \A h \in Handles, str \in Sources, n \in 0..1 :
            (Ran("cstr", h, 0) /\ Str_cstr(h, str, n)) =>
                /\ ptr'[h] # nullptr
                /\ ptr'[h] \notin Allocated
                /\ counter'[h] = ptr'[h]
                /\ cnt'[counter'[h]] = 1
                /\ bufFrees'[ptr'[h]] = 0
                /\ \A g \in Handles \ {h} :
                        ptr'[g] # ptr'[h] /\ counter'[g] # counter'[h]
                /\ \A c \in Allocated : cnt'[c] = cnt[c]
       /\ \A h \in Handles :
            (/\ life'[h] = "live"
             /\ ptr'[h] # nullptr
             /\ (life[h] # "live" \/ ptr'[h] # ptr[h]))
            => \/ /\ last'.op = "cstr"
                  /\ last'.t = h
                  /\ ptr'[h] \notin Allocated
               \/ /\ last'.op \in {"copy", "assign"}
                  /\ last'.t = h
                  /\ life[last'.s] = "live"
                  /\ ptr[last'.s] = ptr'[h]]_vars

\* C17 witness: a handle has been constructed from the content that
\* another live handle's buffer already has, and the two buffers differ.
C17_Witness ==
    /\ last.op = "cstr"
    /\ cnt[counter[last.t]] = 1
    /\ \E g \in Live \ {last.t} :
        /\ Initialized(g)
        /\ ptr[g] # ptr[last.t]
        /\ mem[ptr[g]] = mem[ptr[last.t]]

\* C19: a copy construction from an Uninitialized handle makes an
\* Uninitialized handle and changes no count; an assignment of an
\* Uninitialized source to an Initialized target makes the target
\* Uninitialized (ref_count() 0, c_str() null), lowers the count of the
\* target's old buffer by exactly 1 and leaves the source Uninitialized.
C19_UninitializedSource ==
    [][/\ last'.op = "copy" => \A h \in Handles, other \in Handles :
            (Ran("copy", h, other) /\ Str_copy(h, other)
                                   /\ Uninitialized(other)) =>
                /\ Uninitialized(h)'
                /\ Uninitialized(other)'
                /\ cnt' = cnt
                /\ bufFrees' = bufFrees /\ cntFrees' = cntFrees
       /\ last'.op = "assign" => \A t \in Handles, other \in Handles :
            (/\ Ran("assign", t, other)
             /\ operator_assign(t, other)
             /\ Uninitialized(other)
             /\ Initialized(t)) =>
                /\ Uninitialized(t)'
                /\ ref_count(t)' = 0
                /\ c_str(t)' = nullptr
                /\ cnt'[counter[t]] = cnt[counter[t]] - 1
                /\ \A c \in Bufs \ {counter[t]} : cnt'[c] = cnt[c]
                /\ Uninitialized(other)']_vars

\* C19 witness: an Uninitialized handle has been assigned to one of the two
\* handles of a buffer, whose count is now 1.
C19_Witness ==
    /\ last.op = "assign"
    /\ last.old # nullptr
    /\ last.pre = 2
    /\ Uninitialized(last.s)
    /\ Uninitialized(last.t)
    /\ cnt[last.old] = 1
    /\ Refs(last.old) # {}

\* The handles other than h keep their two pointers.
OthersKept(h) ==
    \A g \in Handles \ {h} : ptr'[g] = ptr[g] /\ counter'[g] = counter[g]

\* C20: t = s between handles of different buffers changes exactly two
\* counts, t's old buffer by -1 and s's buffer by +1; a copy construction
\* changes only the source's count, by +1; a destruction changes only the
\* destroyed handle's count, by -1; every other count and every other
\* handle's pointers are unchanged, the source's included.
C20_CountFrame ==
    [][/\ last'.op = "assign" => \A t \in Handles, other \in Handles :
            (/\ Ran("assign", t, other)
             /\ operator_assign(t, other)
             /\ Initialized(t)
             /\ Initialized(other)
             /\ counter[t] # counter[other])
            => /\ cnt' = [cnt EXCEPT ![counter[t]] = @ - 1,
                                     ![counter[other]] = @ + 1]
               /\ OthersKept(t)
       /\ last'.op = "copy" => \A h \in Handles, other \in Handles :
            (Ran("copy", h, other) /\ Str_copy(h, other) /\ Initialized(other))
            => /\ cnt' = [cnt EXCEPT ![counter[other]] = @ + 1]
               /\ OthersKept(h)
       /\ last'.op = "dtor" => \A h \in Handles :
            (Ran("dtor", h, 0) /\ Str_dtor(h) /\ Initialized(h))
            => /\ cnt' = [cnt EXCEPT ![counter[h]] = @ - 1]
               /\ OthersKept(h)]_vars

\* C20 witness: t = s has moved t from a buffer it shared with another
\* handle to the buffer of s.
C20_Witness ==
    /\ last.op = "assign"
    /\ last.old # nullptr
    /\ Initialized(last.s)
    /\ counter[last.s] # last.old
    /\ counter[last.t] = counter[last.s]
    /\ cnt[last.old] = 1
    /\ cnt[counter[last.s]] = 2
    /\ Refs(last.old) # {}

\* C18: no operation changes the content of a buffer that is not freed,
\* and an observer call (ref_count, c_str, valid, <<, the six comparisons)
\* changes no handle, no count and no buffer.
C18_Immutable ==
    [][/\ \A b \in Allocated : bufFrees'[b] = 0 => mem'[b] = mem[b]
       /\ ~Unobserved' =>
            /\ life' = life /\ ptr' = ptr /\ counter' = counter
            /\ nalloc' = nalloc /\ mem' = mem /\ cnt' = cnt
            /\ bufFrees' = bufFrees /\ cntFrees' = cntFrees]_vars

\* C18 witness: after copies, an assignment or destruction that freed
\* another buffer, operator<< has written the one char of a buffer that two
\* handles share.
C18_Witness ==
    /\ last.op = "<<"
    /\ res = <<1>>
    /\ ref_count(last.t) = 2
    /\ mem[ptr[last.t]] = <<1, 0>>
    /\ \E b \in Allocated : bufFrees[b] = 1

====
